---- MODULE Spec2Model ----
(***************************************************************************)
(* Client-side message orchestration of the chat application:              *)
(*   useMessages (simulateTyping, handleSaveEdit),                         *)
(*   useMessageSending (handleSend, handleRerunMessage, handleRemixImage,  *)
(*   handleUpscaleImage), useTextLookup (handleTextLookup) and the         *)
(*   Glossary component (loadGlossary, confirmDeleteTerm, ...).            *)
(* Strings are sequences of one-character strings; a message id            *)
(* `${prefix}${Date.now()}` is the pair <<prefix, time>>.                  *)
(***************************************************************************)
EXTENDS Integers, Sequences, FiniteSets, Bags, TLC

VARIABLES
    messages,           \* useMessages: const [messages, setMessages]
    messagesRef,        \* useMessageSending: messagesRef.current
    currentGenImageId,  \* useMessageSending: currentGenImageId.current
    isSending,          \* useMessages: isSending
    error,              \* useMessages: error (TRUE when a string is set)
    messagesSent,       \* useMessages: messagesSent
    refreshTrigger,     \* counter bumped by triggerGlossaryRefresh
    now,                \* the value Date.now() returns
    jobs,               \* one record per started operation (its closure)
    response,           \* lookup parsing: data.response
    aiResponse,         \* lookup parsing: the text handed to simulateTyping
    category,           \* lookup parsing: the category persisted
    parsed,             \* lookup parsing: the parsing step has run
    categories,         \* Glossary: categories (category -> its terms)
    deletedTermTexts,   \* Glossary: deletedTermTexts
    isDeleting,         \* Glossary: isDeleting
    deleteConfirmation, \* Glossary: deleteConfirmation (a term id or Null)
    glossaryError,      \* Glossary: error (TRUE when a string is set)
    server,             \* rows of the table glossary_terms
    nextTermId,         \* the id the next inserted row gets
    loads,              \* loadGlossary calls in flight (a bag of closures)
    deletion,           \* the confirmDeleteTerm call in flight, or Null
    mounted,            \* useInputHandling: the component is mounted
    isRecording,        \* useInputHandling: isRecording
    isRecordingInitializing, \* useInputHandling: isRecordingInitializing
    isTranscribing,     \* useInputHandling: isTranscribing
    mediaRecorderRef,   \* useInputHandling: mediaRecorderRef.current (a recording or 0)
    recordings,         \* one record per startRecording call (its closure)
    generatingImage,    \* useImageGeneration: generatingImage
    progressPercentage, \* useImageGeneration: progressPercentage, in eighths of a percent
    effectProgress,     \* the progressPercentage the progress effect last ran with
    expandedImage,      \* useImageViewer: expandedImage (a url or Null)
    currentImageCollection, \* useImageViewer: currentImageCollection
    currentImageIndex,  \* useImageViewer: currentImageIndex (from 0)
    lastEvent           \* the last event of the viewer: a key or a click

chatVars == <<messages, messagesRef, currentGenImageId, isSending, error,
              messagesSent, refreshTrigger, now, jobs>>
parseVars == <<response, aiResponse, category, parsed>>
glossaryVars == <<categories, deletedTermTexts, isDeleting, deleteConfirmation,
                  glossaryError, server, nextTermId, loads, deletion>>
inputVars == <<mounted, isRecording, isRecordingInitializing, isTranscribing,
               mediaRecorderRef, recordings>>
progressVars == <<generatingImage, progressPercentage, effectProgress>>
viewerVars == <<expandedImage, currentImageCollection, currentImageIndex, lastEvent>>
vars == <<chatVars, parseVars, glossaryVars, inputVars, progressVars, viewerVars>>

(***************************************************************************)
(* Bounds of the model.                                                    *)
(***************************************************************************)
MaxJobs == 2
MaxNow == 1
MaxLen == 2
MaxSegs == 3
MaxLoads == 2
MaxTermId == 2
MaxRefresh == 1
MaxRecordings == 3
MaxImages == 3

Null == <<>>
Undefined == <<"undefined">>

Chars == {"a", "b"}
SeqsUpTo(S, n) == UNION {[1..k -> S] : k \in 0..n}
ResponseTexts == SeqsUpTo(Chars, MaxLen)
InputTexts == {<<"h">>, <<" ", "k">>, <<" ">>, <<>>}

(***************************************************************************)
(* String helpers.                                                         *)
(***************************************************************************)
IsSpace(c) == c \in {" ", "\n"}

RECURSIVE TrimStart(_)
TrimStart(s) ==
    IF s # <<>> /\ IsSpace(Head(s)) THEN TrimStart(Tail(s)) ELSE s

RECURSIVE TrimEnd(_)
TrimEnd(s) ==
    IF s # <<>> /\ IsSpace(s[Len(s)]) THEN TrimEnd(SubSeq(s, 1, Len(s) - 1)) ELSE s

Trim(s) == TrimEnd(TrimStart(s))

(***************************************************************************)
(* handleTextLookup, category parsing:                                     *)
(*   aiResponse.match(/CATEGORY:\s*(\w+)/i) and                            *)
(*   aiResponse.replace(/CATEGORY:\s*\w+/i, '').trim()                     *)
(***************************************************************************)
Keyword == <<"C", "A", "T", "E", "G", "O", "R", "Y", ":">>
KeywordLen == Len(Keyword)

LowerLetters == {"c", "a", "t", "e", "g", "o", "r", "y", "m", "b", "h", "k"}
UpperOf ==
    [c \in LowerLetters |->
        CASE c = "c" -> "C" [] c = "a" -> "A" [] c = "t" -> "T" [] c = "e" -> "E"
          [] c = "g" -> "G" [] c = "o" -> "O" [] c = "r" -> "R" [] c = "y" -> "Y"
          [] c = "m" -> "M" [] c = "b" -> "B" [] c = "h" -> "H" [] c = "k" -> "K"]
UpperLetters == {UpperOf[c] : c \in LowerLetters}

\* the i flag: characters are compared after case folding
Fold(c) == IF c \in LowerLetters THEN UpperOf[c] ELSE c

\* \w
IsWord(c) == c \in LowerLetters \cup UpperLetters \cup {"1", "_"}

\* a matcher without the i flag
KeywordAtCaseSensitive(s, p) ==
    /\ p + KeywordLen - 1 <= Len(s)
    /\ \A k \in 1..KeywordLen : s[p + k - 1] = Keyword[k]

\* the literal CATEGORY: at position p (ignoring case)
KeywordAt(s, p) ==
    /\ p + KeywordLen - 1 <= Len(s)
    /\ \A k \in 1..KeywordLen : Fold(s[p + k - 1]) = Keyword[k]

\* \s* is greedy: the first position at or after p that holds no whitespace
RECURSIVE SkipSpace(_, _)
SkipSpace(s, p) ==
    IF p <= Len(s) /\ IsSpace(s[p]) THEN SkipSpace(s, p + 1) ELSE p

\* \w+ is greedy: the last position of the run of word characters from p
RECURSIVE WordEnd(_, _)
WordEnd(s, p) ==
    IF p + 1 <= Len(s) /\ IsWord(s[p + 1]) THEN WordEnd(s, p + 1) ELSE p

\* the regular expression anchored at p
MatchAt(s, p) ==
    /\ KeywordAt(s, p)
    /\ LET q == SkipSpace(s, p + KeywordLen) IN q <= Len(s) /\ IsWord(s[q])

\* the leftmost match: [index, last, group], index 0 when there is none
RECURSIVE MatchFrom(_, _)
MatchFrom(s, p) ==
    IF p > Len(s) THEN [index |-> 0, last |-> 0, group |-> Null]
    ELSE IF MatchAt(s, p)
         THEN LET q == SkipSpace(s, p + KeywordLen)
                  e == WordEnd(s, q)
              IN [index |-> p, last |-> e, group |-> SubSeq(s, q, e)]
         ELSE MatchFrom(s, p + 1)

RegexMatch(s) == MatchFrom(s, 1)

\* String.prototype.replace with a regular expression without the g flag
ReplaceFirst(s) ==
    LET m == RegexMatch(s)
    IN IF m.index = 0 THEN s
       ELSE SubSeq(s, 1, m.index - 1) \o SubSeq(s, m.last + 1, Len(s))

Uncategorized == <<"Uncategorized">>

ParseCategory(resp) ==
    LET categoryMatch == RegexMatch(resp)
    IN IF categoryMatch.index # 0 /\ categoryMatch.group # <<>>
       THEN [category |-> Trim(categoryMatch.group),
             aiResponse |-> Trim(ReplaceFirst(resp))]
       ELSE [category |-> Uncategorized, aiResponse |-> resp]

(***************************************************************************)
(* Messages and the reducers applied through setMessages.                  *)
(***************************************************************************)
\* progressPercentage of a message that has none (the field is optional)
NoProgress == -1

Msg(id, content, type, isUser) ==
    [id |-> id, content |-> content, type |-> type, isUser |-> isUser,
     imageUrls |-> Null, generationData |-> Null, progressPercentage |-> NoProgress]

\* A 'generating-image' placeholder: created with progressPercentage: 0.
Placeholder(id, content) ==
    [Msg(id, content, "generating-image", FALSE) EXCEPT !.progressPercentage = 0]

Id(prefix, t) == <<prefix, t>>

RemoveIdAndUser(msgs, id) == SelectSeq(msgs, LAMBDA m : m.id # id /\ ~m.isUser)
RemoveId(msgs, id) == SelectSeq(msgs, LAMBDA m : m.id # id)

SetContent(msgs, id, c) ==
    [k \in 1..Len(msgs) |->
        IF msgs[k].id = id THEN [msgs[k] EXCEPT !.content = c] ELSE msgs[k]]

SetType(msgs, id, t) ==
    [k \in 1..Len(msgs) |->
        IF msgs[k].id = id THEN [msgs[k] EXCEPT !.type = t] ELSE msgs[k]]

HasId(msgs, id) == \E k \in 1..Len(msgs) : msgs[k].id = id

(***************************************************************************)
(* simulateTyping: the typing message is appended, then `type` runs once   *)
(* synchronously and again on every timer tick.                            *)
(***************************************************************************)
\* a playback that ends one character short
TypeStepShort(msgs, text, messageId, i) ==
    IF i < Len(text)
    THEN SetContent(msgs, messageId, SubSeq(text, 1, i))
    ELSE SetType(msgs, messageId, "text")

TypeStep(msgs, text, messageId, i) ==
    IF i < Len(text)
    THEN SetContent(msgs, messageId, SubSeq(text, 1, i + 1))
    ELSE SetType(msgs, messageId, "text")

StartTyping(msgs, text, messageId) ==
    TypeStep(Append(msgs, Msg(messageId, <<>>, "typing", FALSE)), text, messageId, 0)

(***************************************************************************)
(* Jobs: the closure of one started operation.                             *)
(***************************************************************************)
Job(kind, pc, sent, userId, loadingId, genId, alone) ==
    [kind |-> kind, pc |-> pc, sent |-> sent, userId |-> userId,
     loadingId |-> loadingId, genId |-> genId,
     type |-> "none", text |-> Null, aiId |-> Null, i |-> 0, typed |-> FALSE,
     onComplete |-> FALSE,
     persist |-> "none", numLoadingAtCall |-> 0, alone |-> alone]

Final == {"done", "failed", "stuck"}
Idle == \A j \in 1..Len(jobs) : jobs[j].pc \in Final

\* Every operation that starts while a job is in flight ends that job's
\* isolation (history field `alone`).
Disturb(js) == [j \in 1..Len(js) |-> [js[j] EXCEPT !.alone = FALSE]]

InitChat ==
    /\ messages = <<>>
    /\ messagesRef = <<>>
    /\ currentGenImageId = Null
    /\ isSending = FALSE
    /\ error = FALSE
    /\ messagesSent = 0
    /\ refreshTrigger = 0
    /\ now = 0
    /\ jobs = <<>>

\* useImageViewer after mount: no image is expanded.
InitViewer ==
    /\ expandedImage = Null
    /\ currentImageCollection = <<>>
    /\ currentImageIndex = 0
    /\ lastEvent = "none"

\* Progress values are kept in eighths of a percent: one tick adds 95/40 = 19/8.
ProgressStep == 19
ProgressCap == 760
Done == 800

\* useImageGeneration after mount.
InitHook ==
    /\ generatingImage = FALSE
    /\ progressPercentage = 0
    /\ effectProgress = 0

\* useInputHandling after mount: nothing is recording.
InitInput ==
    /\ mounted = TRUE
    /\ isRecording = FALSE
    /\ isRecordingInitializing = FALSE
    /\ isTranscribing = FALSE
    /\ mediaRecorderRef = 0
    /\ recordings = <<>>

InitParseIdle ==
    /\ response = Null
    /\ aiResponse = Null
    /\ category = Null
    /\ parsed = FALSE

\* Date.now() advances.
Advance ==
    /\ now < MaxNow
    /\ now' = now + 1
    /\ UNCHANGED <<messages, messagesRef, currentGenImageId, isSending, error,
                   messagesSent, refreshTrigger, jobs, parseVars, glossaryVars, inputVars, progressVars, viewerVars>>

(***************************************************************************)
(* handleSend                                                              *)
(***************************************************************************)
HandleSend(inputText) ==
    /\ Len(jobs) < MaxJobs
    /\ Trim(inputText) # <<>>
    /\ LET messageId == Id("", now)
           loadingId == Id("loading-", now)
           newMessage == Msg(messageId, inputText, "text", TRUE)
           loadingMessage == Msg(loadingId, <<"Thinking...">>, "loading", FALSE)
           job == Job("send", "interpret", inputText, messageId, loadingId, Null, Idle)
       IN /\ messages' = messages \o <<newMessage, loadingMessage>>
          /\ messagesRef' = messagesRef \o <<newMessage, loadingMessage>>
          /\ jobs' = Append(Disturb(jobs),
                            [job EXCEPT !.numLoadingAtCall =
                                Len(SelectSeq(messages, LAMBDA m : m.type = "loading"))])
    /\ isSending' = TRUE
    /\ UNCHANGED <<currentGenImageId, error, messagesSent, refreshTrigger, now, parseVars, glossaryVars, inputVars, progressVars, viewerVars>>

\* The interpret response arrives with response.ok; data.type is `type` (it
\* is not read) and data.response is `text`.
SendResponseOk(j, type, text) ==
    /\ jobs[j].kind = "send" /\ jobs[j].pc = "interpret"
    /\ LET aiMessageId == Id("ai-", now)
           removed == RemoveId(messages, jobs[j].loadingId)
       IN IF text = Undefined
          THEN \* text.length throws inside simulateTyping, after the typing
               \* message was queued; the catch block runs.
               /\ messages' = RemoveId(Append(removed, Msg(aiMessageId, <<>>, "typing", FALSE)),
                                       jobs[j].loadingId)
               /\ error' = TRUE
               /\ jobs' = [jobs EXCEPT ![j].pc = "failed", ![j].aiId = aiMessageId,
                                       ![j].type = type]
               /\ UNCHANGED messagesSent
          ELSE /\ messages' = StartTyping(removed, text, aiMessageId)
               /\ jobs' = [jobs EXCEPT ![j].pc = IF Len(text) = 0 THEN "done" ELSE "typing",
                                       ![j].type = type,
                                       ![j].text = text, ![j].aiId = aiMessageId,
                                       ![j].i = IF Len(text) = 0 THEN 0 ELSE 1,
                                       ![j].typed = (Len(text) = 0)]
               /\ messagesSent' = messagesSent + 1
               /\ UNCHANGED error
    /\ isSending' = FALSE
    /\ UNCHANGED <<messagesRef, currentGenImageId, refreshTrigger, now, parseVars, glossaryVars, inputVars, progressVars, viewerVars>>

\* fetch rejects or response.ok is false.
SendResponseFail(j) ==
    /\ jobs[j].kind = "send" /\ jobs[j].pc = "interpret"
    /\ error' = TRUE
    /\ messages' = RemoveId(messages, jobs[j].loadingId)
    /\ isSending' = FALSE
    /\ jobs' = [jobs EXCEPT ![j].pc = "failed"]
    /\ UNCHANGED <<messagesRef, currentGenImageId, messagesSent, refreshTrigger, now, parseVars, glossaryVars, inputVars, progressVars, viewerVars>>

(***************************************************************************)
(* handleRerunMessage                                                      *)
(***************************************************************************)
FindIndex(msgs, id) ==
    IF HasId(msgs, id)
    THEN CHOOSE k \in 1..Len(msgs) :
            msgs[k].id = id /\ \A l \in 1..(k - 1) : msgs[l].id # id
    ELSE 0

\* messagesRef.current.filter((_, index) => index <= messageIndex), as a
\* function of the list it is applied to
UpdatedMessages(list, messageId) == SubSeq(list, 1, FindIndex(list, messageId))

\* The rerun button of the displayed message at position k.
HandleRerunMessage(k) ==
    /\ Len(jobs) < MaxJobs
    /\ k \in 1..Len(messages) /\ messages[k].isUser
    /\ LET messageContent == messages[k].content
           messageId == messages[k].id
           messageIndex == FindIndex(messagesRef, messageId)
           updatedMessages == UpdatedMessages(messagesRef, messageId)
           loadingId == Id("loading-", now)
           loadingMessage == Msg(loadingId, <<"Thinking...">>, "loading", FALSE)
           newMessages == Append(updatedMessages, loadingMessage)
       IN /\ messageIndex # 0
          /\ messages' = newMessages
          /\ messagesRef' = newMessages
          /\ jobs' = Append(Disturb(jobs),
                            Job("rerun", "interpret", messageContent, messageId,
                                loadingId, Null, Idle))
    /\ isSending' = TRUE
    /\ UNCHANGED <<currentGenImageId, error, messagesSent, refreshTrigger, now, parseVars, glossaryVars, inputVars, progressVars, viewerVars>>

\* onComplete of the txt2img playback: the placeholder is appended and
\* generateImages is called.
StartGeneration(msgs) ==
    Append(msgs, Placeholder(Id("gen-image-", now), <<>>))

RerunResponseOk(j, type, text) ==
    /\ jobs[j].kind = "rerun" /\ jobs[j].pc = "interpret"
    /\ LET removed == RemoveId(messages, jobs[j].loadingId)
           aiMessageId == Id(IF type = "txt2img" THEN "ai-reply-" ELSE "ai-", now)
       IN CASE type = "img2img" ->
                 /\ messages' = Append(removed, Msg(aiMessageId, text, "text", FALSE))
                 /\ jobs' = [jobs EXCEPT ![j].pc = "done", ![j].aiId = aiMessageId,
                                         ![j].type = type]
                 /\ UNCHANGED <<error, currentGenImageId>>
            [] type # "img2img" /\ text = Undefined ->
                 /\ messages' = RemoveId(Append(removed, Msg(aiMessageId, <<>>, "typing", FALSE)),
                                         jobs[j].loadingId)
                 /\ error' = TRUE
                 /\ jobs' = [jobs EXCEPT ![j].pc = "failed", ![j].aiId = aiMessageId,
                                         ![j].type = type]
                 /\ UNCHANGED currentGenImageId
            [] type = "txt" /\ text # Undefined ->
                 /\ messages' = StartTyping(removed, text, aiMessageId)
                 /\ jobs' = [jobs EXCEPT ![j].pc = IF Len(text) = 0 THEN "done" ELSE "typing",
                                         ![j].type = type,
                                         ![j].text = text, ![j].aiId = aiMessageId,
                                         ![j].i = IF Len(text) = 0 THEN 0 ELSE 1,
                                       ![j].typed = (Len(text) = 0)]
                 /\ UNCHANGED <<error, currentGenImageId>>
            [] type = "txt2img" /\ text # Undefined ->
                 IF Len(text) = 0
                 THEN /\ messages' = StartGeneration(StartTyping(removed, text, aiMessageId))
                      /\ currentGenImageId' = Id("gen-image-", now)
                      /\ jobs' = [jobs EXCEPT ![j].pc = "generating", ![j].text = text,
                                              ![j].type = type,
                                              ![j].aiId = aiMessageId, ![j].onComplete = TRUE,
                                              ![j].typed = TRUE,
                                              ![j].genId = Id("gen-image-", now)]
                      /\ UNCHANGED error
                 ELSE /\ messages' = StartTyping(removed, text, aiMessageId)
                      /\ jobs' = [jobs EXCEPT ![j].pc = "typing", ![j].text = text,
                                              ![j].type = type,
                                              ![j].aiId = aiMessageId, ![j].i = 1,
                                              ![j].onComplete = TRUE]
                      /\ UNCHANGED <<error, currentGenImageId>>
    /\ isSending' = FALSE
    /\ UNCHANGED <<messagesRef, messagesSent, refreshTrigger, now, parseVars, glossaryVars, inputVars, progressVars, viewerVars>>

RerunResponseFail(j) ==
    /\ jobs[j].kind = "rerun" /\ jobs[j].pc = "interpret"
    /\ error' = TRUE
    /\ messages' = RemoveId(messages, jobs[j].loadingId)
    /\ isSending' = FALSE
    /\ jobs' = [jobs EXCEPT ![j].pc = "failed"]
    /\ UNCHANGED <<messagesRef, currentGenImageId, messagesSent, refreshTrigger, now, parseVars, glossaryVars, inputVars, progressVars, viewerVars>>

(***************************************************************************)
(* One timer tick of a playback (the setTimeout(type, speed) callback).    *)
(***************************************************************************)
TypeTick(j) ==
    /\ jobs[j].pc = "typing"
    /\ IF jobs[j].i < Len(jobs[j].text)
       THEN /\ messages' = TypeStep(messages, jobs[j].text, jobs[j].aiId, jobs[j].i)
            /\ jobs' = [jobs EXCEPT ![j].i = @ + 1]
            /\ UNCHANGED currentGenImageId
       ELSE IF jobs[j].onComplete
            THEN /\ messages' = StartGeneration(
                                    TypeStep(messages, jobs[j].text, jobs[j].aiId, jobs[j].i))
                 /\ currentGenImageId' = Id("gen-image-", now)
                 /\ jobs' = [jobs EXCEPT ![j].pc = "generating", ![j].typed = TRUE,
                                         ![j].genId = Id("gen-image-", now)]
            ELSE /\ messages' = TypeStep(messages, jobs[j].text, jobs[j].aiId, jobs[j].i)
                 /\ jobs' = [jobs EXCEPT ![j].pc = "done", ![j].typed = TRUE]
                 /\ UNCHANGED currentGenImageId
    /\ UNCHANGED <<messagesRef, isSending, error, messagesSent,
                   refreshTrigger, now, parseVars, glossaryVars, inputVars, progressVars, viewerVars>>

(***************************************************************************)
(* Completion of generateImages / remixImage / the upscale fetch.          *)
(***************************************************************************)
Urls(j) == <<"urls", j>>
Data(j) == <<"data", j>>

SetGenerated(msgs, id, content, j) ==
    [k \in 1..Len(msgs) |->
        IF msgs[k].id = id
        THEN [msgs[k] EXCEPT !.content = content, !.type = "generated-image",
                             !.imageUrls = Urls(j), !.generationData = Data(j)]
        ELSE msgs[k]]

\* a handler that converts the placeholder its own closure created
RerunOwnId(j) == jobs[j].genId

\* The id the .then handler of handleRerunMessage converts:
\* savedGenImageId = currentGenImageId.current
RerunTargetId(j) == currentGenImageId

\* generateImages(...).then of handleRerunMessage
RerunGenerateOk(j, promptEnhanced) ==
    /\ jobs[j].kind = "rerun" /\ jobs[j].pc = "generating"
    /\ IF currentGenImageId # Null
       THEN /\ messages' =
                LET content == IF promptEnhanced
                               THEN <<"Generated images", " (prompt enhanced for better results)", ":">>
                               ELSE <<"Generated images", ":">>
                    converted == SetGenerated(messages, RerunTargetId(j), content, j)
                IN IF promptEnhanced
                   THEN Append(converted,
                               Msg(Id("system-enhanced-", now),
                                   <<"Your prompt was enhanced for better results">>,
                                   "text", FALSE))
                   ELSE converted
            /\ currentGenImageId' = Null
       ELSE UNCHANGED <<messages, currentGenImageId>>
    /\ jobs' = [jobs EXCEPT ![j].pc = "done"]
    /\ UNCHANGED <<messagesRef, isSending, error, messagesSent, refreshTrigger, now, parseVars, glossaryVars, inputVars, progressVars, viewerVars>>

\* a failure handler that removes the job's loading placeholder instead
FailureTargetLoading(j) == jobs[j].loadingId

\* The id a failure handler removes from the list.
FailureTargetId(j) == jobs[j].genId

\* generateImages(...).catch of handleRerunMessage
RerunGenerateFail(j) ==
    /\ jobs[j].kind = "rerun" /\ jobs[j].pc = "generating"
    /\ currentGenImageId' = Null
    /\ error' = TRUE
    /\ messages' = RemoveId(messages, FailureTargetId(j))
    /\ jobs' = [jobs EXCEPT ![j].pc = "failed"]
    /\ UNCHANGED <<messagesRef, isSending, messagesSent, refreshTrigger, now, parseVars, glossaryVars, inputVars, progressVars, viewerVars>>

(***************************************************************************)
(* handleRemixImage                                                        *)
(***************************************************************************)
\* The remix button of an ImageCard: a generated image with generation data
\* is on display.
CanRemix ==
    \E k \in 1..Len(messages) :
        messages[k].type = "generated-image" /\ messages[k].generationData # Null

HandleRemixImage ==
    /\ Len(jobs) < MaxJobs
    /\ CanRemix
    /\ LET userMessageId == Id("user-remix-", now)
           genImageId == Id("gen-remix-", now)
       IN /\ messages' = messages \o
                <<Msg(userMessageId, <<"Remix this image">>, "text", TRUE),
                  Placeholder(genImageId, <<"Remixing image...">>)>>
          /\ currentGenImageId' = genImageId
          /\ jobs' = Append(Disturb(jobs),
                            Job("remix", "generating", Null, userMessageId, Null,
                                genImageId, Idle))
    /\ UNCHANGED <<messagesRef, isSending, error, messagesSent, refreshTrigger, now, parseVars, glossaryVars, inputVars, viewerVars>>

\* remixImage(...).then
RemixOk(j, isPlaceholder, hasEnhancedPrompt) ==
    /\ jobs[j].kind = "remix" /\ jobs[j].pc = "generating"
    /\ LET content == IF isPlaceholder /\ hasEnhancedPrompt
                      THEN <<"Remixed variations", " (Prompt was enhanced for better results.)", ":">>
                      ELSE <<"Remixed variations", ":">>
           converted == SetGenerated(messages, jobs[j].genId, content, j)
       IN messages' = IF isPlaceholder /\ hasEnhancedPrompt
                      THEN Append(converted,
                                  Msg(Id("system-placeholder-", now), <<"Enhanced prompt">>,
                                      "text", FALSE))
                      ELSE converted
    /\ currentGenImageId' = Null
    /\ jobs' = [jobs EXCEPT ![j].pc = "done"]
    /\ UNCHANGED <<messagesRef, isSending, error, messagesSent, refreshTrigger, now, parseVars, glossaryVars, inputVars, viewerVars>>

\* remixImage(...).catch
RemixFail(j) ==
    /\ jobs[j].kind = "remix" /\ jobs[j].pc = "generating"
    /\ currentGenImageId' = Null
    /\ error' = TRUE
    /\ messages' = RemoveId(messages, FailureTargetId(j))
    /\ jobs' = [jobs EXCEPT ![j].pc = "failed"]
    /\ UNCHANGED <<messagesRef, isSending, messagesSent, refreshTrigger, now, parseVars, glossaryVars, inputVars, viewerVars>>

(***************************************************************************)
(* handleUpscaleImage                                                      *)
(***************************************************************************)
ImageUrls == {<<"u", "/", "f">>, <<"u", "/">>}

\* imageUrl.split('/').pop()
SplitPop(url) ==
    LET slashes == {k \in 1..Len(url) : url[k] = "/"}
        last == IF slashes = {} THEN 0
                ELSE CHOOSE k \in slashes : \A l \in slashes : l <= k
    IN SubSeq(url, last + 1, Len(url))

\* The upscale button of an ImageCard: a generated image is on display.
CanUpscale == \E k \in 1..Len(messages) : messages[k].type = "generated-image"

HandleUpscaleImage(imageUrl) ==
    /\ Len(jobs) < MaxJobs
    /\ CanUpscale
    /\ LET userMessageId == Id("user-upscale-", now)
           upscaleImageId == Id("upscale-", now)
           filename == SplitPop(imageUrl)
       IN /\ messages' = messages \o
                <<Msg(userMessageId, <<"Upscale this image">>, "text", TRUE),
                  Placeholder(upscaleImageId, <<"Upscaling image...">>)>>
          /\ currentGenImageId' = upscaleImageId
          /\ IF filename = <<>>
             THEN /\ error' = TRUE
                  /\ jobs' = Append(Disturb(jobs),
                                    Job("upscale", "stuck", Null, userMessageId, Null,
                                        upscaleImageId, Idle))
                  /\ UNCHANGED isSending
             ELSE /\ isSending' = TRUE
                  /\ jobs' = Append(Disturb(jobs),
                                    Job("upscale", "generating", Null, userMessageId, Null,
                                        upscaleImageId, Idle))
                  /\ UNCHANGED error
    /\ UNCHANGED <<messagesRef, messagesSent, refreshTrigger, now, parseVars, glossaryVars, inputVars, progressVars, viewerVars>>

SetUpscaledMoved(msgs, id, j) ==
    Append(RemoveId(msgs, id),
           [Msg(id, <<"Upscaled image:">>, "generated-image", FALSE)
               EXCEPT !.imageUrls = Urls(j)])

SetUpscaled(msgs, id, j) ==
    [k \in 1..Len(msgs) |->
        IF msgs[k].id = id
        THEN [msgs[k] EXCEPT !.content = <<"Upscaled image:">>, !.type = "generated-image",
                             !.imageUrls = Urls(j)]
        ELSE msgs[k]]

\* fetch(upscaleUrl).then(...).then(data => ...)
UpscaleOk(j) ==
    /\ jobs[j].kind = "upscale" /\ jobs[j].pc = "generating"
    /\ currentGenImageId' = Null
    /\ messages' = SetUpscaled(messages, jobs[j].genId, j)
    /\ isSending' = FALSE
    /\ jobs' = [jobs EXCEPT ![j].pc = "done"]
    /\ UNCHANGED <<messagesRef, error, messagesSent, refreshTrigger, now, parseVars, glossaryVars, inputVars, progressVars, viewerVars>>

\* fetch(upscaleUrl)...catch
UpscaleFail(j) ==
    /\ jobs[j].kind = "upscale" /\ jobs[j].pc = "generating"
    /\ currentGenImageId' = Null
    /\ error' = TRUE
    /\ messages' = RemoveId(messages, FailureTargetId(j))
    /\ isSending' = FALSE
    /\ jobs' = [jobs EXCEPT ![j].pc = "failed"]
    /\ UNCHANGED <<messagesRef, messagesSent, refreshTrigger, now, parseVars, glossaryVars, inputVars, progressVars, viewerVars>>

(***************************************************************************)
(* handleTextLookup                                                        *)
(***************************************************************************)
SelectedTexts == {<<"m">>, <<>>}
LookupResponses == {<<"a">>, <<"a", " ">> \o Keyword \o <<" ", "b">>, Undefined}

HandleTextLookup(selectedText) ==
    /\ Len(jobs) < MaxJobs
    /\ selectedText # <<>>
    /\ LET messageId == Id("", now)
           loadingId == Id("loading-", now)
           userMessage == <<"explain the \"">> \o selectedText \o <<"\" to me">>
       IN /\ messages' = messages \o
                <<Msg(messageId, userMessage, "text", TRUE),
                  Msg(loadingId, <<"Looking up term...">>, "loading", FALSE)>>
          /\ jobs' = Append(Disturb(jobs),
                            Job("lookup", "interpret", selectedText, messageId,
                                loadingId, Null, Idle))
    /\ isSending' = TRUE
    /\ UNCHANGED <<messagesRef, currentGenImageId, error, messagesSent, refreshTrigger,
                   now, parseVars, glossaryVars, inputVars, progressVars, viewerVars>>

LookupResponseOk(j, resp) ==
    /\ jobs[j].kind = "lookup" /\ jobs[j].pc = "interpret"
    /\ IF resp = Undefined
       THEN \* aiResponse.match throws; the outer catch and finally run
            /\ error' = TRUE
            /\ messages' = RemoveId(messages, jobs[j].loadingId)
            /\ isSending' = FALSE
            /\ jobs' = [jobs EXCEPT ![j].pc = "failed"]
       ELSE LET text == ParseCategory(resp).aiResponse
                aiMessageId == Id("lookup-", now)
            IN /\ messages' = StartTyping(RemoveId(messages, jobs[j].loadingId),
                                          text, aiMessageId)
               /\ jobs' = [jobs EXCEPT ![j].pc = IF Len(text) = 0 THEN "done" ELSE "typing",
                                       ![j].text = text, ![j].aiId = aiMessageId,
                                       ![j].i = IF Len(text) = 0 THEN 0 ELSE 1,
                                       ![j].typed = (Len(text) = 0),
                                       ![j].persist = "pending"]
               /\ UNCHANGED <<error, isSending>>
    /\ UNCHANGED <<messagesRef, currentGenImageId, messagesSent, refreshTrigger, now, parseVars, glossaryVars, inputVars, progressVars, viewerVars>>

LookupResponseFail(j) ==
    /\ jobs[j].kind = "lookup" /\ jobs[j].pc = "interpret"
    /\ error' = TRUE
    /\ messages' = RemoveId(messages, jobs[j].loadingId)
    /\ isSending' = FALSE
    /\ jobs' = [jobs EXCEPT ![j].pc = "failed"]
    /\ UNCHANGED <<messagesRef, currentGenImageId, messagesSent, refreshTrigger, now, parseVars, glossaryVars, inputVars, progressVars, viewerVars>>

\* `await addTermToGlossary(...)` resolves (it never rejects: it returns
\* {success: false} on failure); triggerGlossaryRefresh and finally run.
PersistResolved(j, success) ==
    /\ jobs[j].persist = "pending"
    /\ refreshTrigger' = refreshTrigger + 1
    /\ isSending' = FALSE
    /\ jobs' = [jobs EXCEPT ![j].persist = IF success THEN "done" ELSE "rejected"]
    /\ UNCHANGED <<messages, messagesRef, currentGenImageId, error, messagesSent, now, parseVars, glossaryVars, inputVars, progressVars, viewerVars>>

(***************************************************************************)
(* handleSaveEdit                                                          *)
(***************************************************************************)
EditTexts == {<<"e">>}

HandleSaveEdit(k, newContent) ==
    /\ k \in 1..Len(messages) /\ messages[k].isUser
    /\ LET messageIndex == FindIndex(messages, messages[k].id)
       IN messages' = SubSeq(SetContent(messages, messages[k].id, newContent),
                             1, messageIndex)
    /\ messages' # messages
    /\ jobs' = Disturb(jobs)
    /\ UNCHANGED <<messagesRef, currentGenImageId, isSending, error, messagesSent,
                   refreshTrigger, now, parseVars, glossaryVars, inputVars, progressVars, viewerVars>>


(***************************************************************************)
(* The Glossary component and the table it shows.                          *)
(***************************************************************************)
TermTexts == {"x", "y"}
Categories == {"A", "Uncategorized"}
Term(id, text, cat) == [id |-> id, term |-> text, category |-> cat]
InitialTerms == {Term(1, "x", "A")}
NoTerm == 0
NoDeletion == [termId |-> NoTerm, text |-> "", phase |-> "none"]

\* getGlossaryTermsByCategory: terms.reduce(...) groups the rows
GroupByCategory(terms) ==
    [c \in {t.category : t \in terms} |-> {t \in terms : t.category = c}]

\* filterDeletedTerms, with the deletedTermTexts its closure captured
FilterDeletedTerms(rawCategories, deleted) ==
    IF deleted = {} THEN rawCategories
    ELSE LET kept(c) == {t \in rawCategories[c] : t.term \notin deleted}
         IN [c \in {d \in DOMAIN rawCategories : kept(d) # {}} |-> kept(c)]

\* a local deletion that only records the text
KeepCategories(cats, termText) == cats

\* markTermAsDeleted: the setCategories reducer
RemoveTermText(cats, termText) ==
    LET kept(c) == {t \in cats[c] : t.term # termText}
    IN [c \in {d \in DOMAIN cats : kept(d) # {}} |-> kept(c)]

DisplayedTerms == UNION {categories[c] : c \in DOMAIN categories}

\* the term list with its buttons is rendered
MainView == ~glossaryError /\ DOMAIN categories # {}

Load(deleted) == [deleted |-> deleted, phase |-> "sent", snapshot |-> {}, failed |-> FALSE]
One(l) == SetToBag({l})
Room(n) == BagCardinality(loads) + n <= MaxLoads

\* the effect on [refreshTrigger, loadGlossary, isDeleting, deleteConfirmation]
RefreshEffect(trigger, deleting, confirmation, deleted) ==
    IF trigger > 0 /\ ~deleting /\ confirmation = NoTerm
    THEN One(Load(deleted)) ELSE EmptyBag

InitGlossaryIdle ==
    /\ categories = <<>>
    /\ deletedTermTexts = {}
    /\ isDeleting = FALSE
    /\ deleteConfirmation = NoTerm
    /\ glossaryError = FALSE
    /\ server = {}
    /\ nextTermId = 1
    /\ loads = EmptyBag
    /\ deletion = NoDeletion

\* The component has mounted: the first effect has called loadGlossary.
InitGlossary ==
    /\ categories = <<>>
    /\ deletedTermTexts = {}
    /\ isDeleting = FALSE
    /\ deleteConfirmation = NoTerm
    /\ glossaryError = FALSE
    /\ server \in SUBSET InitialTerms
    /\ nextTermId = 2
    /\ loads = One(Load({}))
    /\ deletion = NoDeletion

glossaryFrame == <<messages, messagesRef, currentGenImageId, isSending, error,
                   messagesSent, now, jobs, parseVars, inputVars, progressVars, viewerVars>>

\* setInterval(loadGlossary, 60000)
GlossaryInterval ==
    /\ Room(1)
    /\ loads' = loads (+) One(Load(deletedTermTexts))
    /\ UNCHANGED <<categories, deletedTermTexts, isDeleting, deleteConfirmation,
                   glossaryError, server, nextTermId, deletion, refreshTrigger, glossaryFrame>>

\* the refresh button: onClick={loadGlossary}
ManualRefresh ==
    /\ MainView
    /\ Room(1)
    /\ loads' = loads (+) One(Load(deletedTermTexts))
    /\ UNCHANGED <<categories, deletedTermTexts, isDeleting, deleteConfirmation,
                   glossaryError, server, nextTermId, deletion, refreshTrigger, glossaryFrame>>

\* getGlossaryTerms reads the table (or fails)
LoadFetch(l, fail) ==
    /\ BagIn(l, loads) /\ l.phase = "sent"
    /\ loads' = (loads (-) One(l)) (+)
                One([l EXCEPT !.phase = "fetched",
                              !.snapshot = IF fail THEN {} ELSE server,
                              !.failed = fail])
    /\ UNCHANGED <<categories, deletedTermTexts, isDeleting, deleteConfirmation,
                   glossaryError, server, nextTermId, deletion, refreshTrigger, glossaryFrame>>

\* loadGlossary continues after its await
LoadResponse(l) ==
    /\ BagIn(l, loads) /\ l.phase = "fetched"
    /\ loads' = loads (-) One(l)
    /\ IF l.failed
       THEN glossaryError' = TRUE /\ UNCHANGED categories
       ELSE /\ categories' = FilterDeletedTerms(GroupByCategory(l.snapshot), l.deleted)
            /\ UNCHANGED glossaryError
    /\ UNCHANGED <<deletedTermTexts, isDeleting, deleteConfirmation,
                   server, nextTermId, deletion, refreshTrigger, glossaryFrame>>

PromptDeleteTerm(termId) ==
    /\ MainView
    /\ \E t \in DisplayedTerms : t.id = termId
    /\ deleteConfirmation # termId
    /\ deleteConfirmation' = termId
    /\ UNCHANGED <<categories, deletedTermTexts, isDeleting, glossaryError, server,
                   nextTermId, loads, deletion, refreshTrigger, glossaryFrame>>

CancelDelete ==
    /\ MainView
    /\ ~isDeleting
    /\ \E t \in DisplayedTerms : t.id = deleteConfirmation
    /\ Room(1)
    /\ deleteConfirmation' = NoTerm
    /\ loads' = loads (+) RefreshEffect(refreshTrigger, isDeleting, NoTerm, deletedTermTexts)
    /\ UNCHANGED <<categories, deletedTermTexts, isDeleting, glossaryError, server,
                   nextTermId, deletion, refreshTrigger, glossaryFrame>>

\* confirmDeleteTerm up to its first await; the effect on [loadGlossary]
\* reloads with the new closure.
ConfirmDeleteTerm(termId) ==
    /\ MainView
    /\ ~isDeleting
    /\ deleteConfirmation = termId
    /\ Room(1)
    /\ \E term \in DisplayedTerms :
        /\ term.id = termId
        /\ isDeleting' = TRUE
        /\ deletedTermTexts' = deletedTermTexts \cup {term.term}
        /\ categories' = RemoveTermText(categories, term.term)
        /\ deletion' = [termId |-> termId, text |-> term.term, phase |-> "byText"]
        /\ loads' = loads (+) One(Load(deletedTermTexts'))
    /\ UNCHANGED <<deleteConfirmation, glossaryError, server, nextTermId,
                   refreshTrigger, glossaryFrame>>

\* a deletion that gives up after the first strategy
NeverFallback(success) == FALSE

\* if (!success || error): the fallback is tried
NeedsFallback(success) == ~success

\* deleteGlossaryTermByText resolves; `reached` is false on a transport failure
DeleteByTextResult(reached) ==
    /\ deletion.phase = "byText"
    /\ LET success == reached /\ \E t \in server : t.term = deletion.text
       IN IF ~NeedsFallback(success)
          THEN /\ Room(1)
               /\ server' = {t \in server : t.term # deletion.text}
               /\ deleteConfirmation' = NoTerm
               /\ isDeleting' = FALSE
               /\ deletion' = NoDeletion
               /\ loads' = loads (+) RefreshEffect(refreshTrigger, FALSE, NoTerm, deletedTermTexts)
          ELSE /\ deletion' = [deletion EXCEPT !.phase = "byId"]
               /\ UNCHANGED <<server, deleteConfirmation, isDeleting, loads>>
    /\ UNCHANGED <<categories, deletedTermTexts, glossaryError, nextTermId,
                   refreshTrigger, glossaryFrame>>

\* deleteGlossaryTerm (the fallback) resolves
DeleteByIdResult(reached) ==
    /\ deletion.phase = "byId"
    /\ Room(1)
    /\ server' = IF reached THEN {t \in server : t.id # deletion.termId} ELSE server
    /\ deleteConfirmation' = NoTerm
    /\ isDeleting' = FALSE
    /\ deletion' = NoDeletion
    /\ loads' = loads (+) RefreshEffect(refreshTrigger, FALSE, NoTerm, deletedTermTexts)
    /\ UNCHANGED <<categories, deletedTermTexts, glossaryError, nextTermId,
                   refreshTrigger, glossaryFrame>>

\* handleFullRefresh: loadGlossary() runs with the closure of this render,
\* then the effects run with the new one.
HandleFullRefresh ==
    /\ MainView
    /\ deletedTermTexts # {}
    /\ LET issued == One(Load(deletedTermTexts)) (+) One(Load({})) (+)
                     RefreshEffect(refreshTrigger, isDeleting, deleteConfirmation, {})
       IN /\ Room(BagCardinality(issued))
          /\ loads' = loads (+) issued
    /\ deletedTermTexts' = {}
    /\ UNCHANGED <<categories, isDeleting, deleteConfirmation, glossaryError, server,
                   nextTermId, deletion, refreshTrigger, glossaryFrame>>

\* the parent's counter changed (triggerGlossaryRefresh)
GlossaryRefreshTriggered ==
    /\ refreshTrigger < MaxRefresh
    /\ Room(1)
    /\ refreshTrigger' = refreshTrigger + 1
    /\ loads' = loads (+) RefreshEffect(refreshTrigger', isDeleting, deleteConfirmation,
                                        deletedTermTexts)
    /\ UNCHANGED <<categories, deletedTermTexts, isDeleting, deleteConfirmation,
                   glossaryError, server, nextTermId, deletion, glossaryFrame>>

\* a row is inserted (addTermToGlossary of a lookup); term is UNIQUE
ServerAddTerm(text, cat) ==
    /\ nextTermId <= MaxTermId
    /\ \A t \in server : t.term # text
    /\ server' = server \cup {Term(nextTermId, text, cat)}
    /\ nextTermId' = nextTermId + 1
    /\ UNCHANGED <<categories, deletedTermTexts, isDeleting, deleteConfirmation,
                   glossaryError, loads, deletion, refreshTrigger, glossaryFrame>>

NextGlossary ==
    \/ GlossaryInterval
    \/ ManualRefresh
    \/ \E l \in BagToSet(loads) : \E fail \in BOOLEAN : LoadFetch(l, fail)
    \/ \E l \in BagToSet(loads) : LoadResponse(l)
    \/ \E t \in DisplayedTerms : PromptDeleteTerm(t.id)
    \/ CancelDelete
    \/ \E t \in DisplayedTerms : ConfirmDeleteTerm(t.id)
    \/ \E reached \in BOOLEAN : DeleteByTextResult(reached)
    \/ \E reached \in BOOLEAN : DeleteByIdResult(reached)
    \/ HandleFullRefresh
    \/ GlossaryRefreshTriggered
    \/ \E text \in TermTexts : \E cat \in Categories : ServerAddTerm(text, cat)

InitGlossaryView == InitChat /\ InitParseIdle /\ InitGlossary /\ InitInput /\ InitHook /\ InitViewer
SpecGlossary == InitGlossaryView /\ [][NextGlossary]_vars

(***************************************************************************)
(* The chat from the empty conversation: handleSend with its callbacks     *)
(* alone (SpecSend), and with handleRerunMessage, handleTextLookup and     *)
(* handleSaveEdit (Spec).  No generated image can be on display there      *)
(* while another operation may still start, so the image buttons are part  *)
(* of SpecGeneration below.                                                *)
(***************************************************************************)
NextSend ==
    \/ Advance
    \/ \E t \in InputTexts : HandleSend(t)
    \/ \E j \in 1..Len(jobs) : \E type \in {"txt", "txt2img"} :
           \E t \in ResponseTexts \cup {Undefined} : SendResponseOk(j, type, t)
    \/ \E j \in 1..Len(jobs) : SendResponseFail(j)
    \/ \E j \in 1..Len(jobs) : TypeTick(j)

InitSend == InitChat /\ InitParseIdle /\ InitGlossaryIdle /\ InitInput /\ InitHook /\ InitViewer
SpecSend == InitSend /\ [][NextSend]_vars

Next ==
    \/ Advance
    \/ \E t \in InputTexts : HandleSend(t)
    \/ \E j \in 1..Len(jobs) : \E type \in {"txt", "txt2img"} :
           \E t \in ResponseTexts \cup {Undefined} : SendResponseOk(j, type, t)
    \/ \E j \in 1..Len(jobs) : SendResponseFail(j)
    \/ \E k \in 1..Len(messages) : HandleRerunMessage(k)
    \/ \E j \in 1..Len(jobs) : \E type \in {"txt", "txt2img", "img2img"} :
           \E t \in ResponseTexts \cup {Undefined} : RerunResponseOk(j, type, t)
    \/ \E j \in 1..Len(jobs) : RerunResponseFail(j)
    \/ \E j \in 1..Len(jobs) : TypeTick(j)
    \/ \E j \in 1..Len(jobs) : \E e \in BOOLEAN : RerunGenerateOk(j, e)
    \/ \E j \in 1..Len(jobs) : RerunGenerateFail(j)
    \/ \E t \in SelectedTexts : HandleTextLookup(t)
    \/ \E j \in 1..Len(jobs) : \E r \in LookupResponses : LookupResponseOk(j, r)
    \/ \E j \in 1..Len(jobs) : LookupResponseFail(j)
    \/ \E j \in 1..Len(jobs) : \E success \in BOOLEAN : PersistResolved(j, success)
    \/ \E k \in 1..Len(messages) : \E t \in EditTexts : HandleSaveEdit(k, t)

Init == InitChat /\ InitParseIdle /\ InitGlossaryIdle /\ InitInput /\ InitHook /\ InitViewer
Spec == Init /\ [][Next]_vars

(***************************************************************************)
(* The generation-class jobs in a conversation that holds a generated     *)
(* image: handleSend("h") ran at time 0, its message was rerun, the        *)
(* interpreter answered txt2img with the text "a" and the generation       *)
(* succeeded.  messagesRef holds what handleRerunMessage left in it.       *)
(***************************************************************************)
InitGeneration ==
    /\ messages =
          <<Msg(Id("", 0), <<"h">>, "text", TRUE),
            Msg(Id("ai-reply-", 0), <<"a">>, "text", FALSE),
            [Msg(Id("gen-image-", 0), <<"Generated images", ":">>, "generated-image", FALSE)
                EXCEPT !.imageUrls = Urls(0), !.generationData = Data(0),
                       !.progressPercentage = 0]>>
    /\ messagesRef = <<Msg(Id("", 0), <<"h">>, "text", TRUE),
                       Msg(Id("loading-", 0), <<"Thinking...">>, "loading", FALSE)>>
    /\ currentGenImageId = Null
    /\ isSending = FALSE
    /\ error = FALSE
    /\ messagesSent = 1
    /\ refreshTrigger = 0
    /\ now = 0
    /\ jobs = <<>>
    /\ InitParseIdle
    /\ InitGlossaryIdle
    /\ InitInput
    \* the generation that produced the image set the progress to 100 and
    \* cleared the reference before the progress effect ran
    /\ generatingImage = FALSE
    /\ progressPercentage = Done
    /\ effectProgress = Done
    /\ InitViewer

NextGeneration ==
    \/ Advance
    \/ \E k \in 1..Len(messages) : HandleRerunMessage(k)
    \/ \E j \in 1..Len(jobs) : \E type \in {"txt", "txt2img", "img2img"} :
           \E t \in ResponseTexts \cup {Undefined} : RerunResponseOk(j, type, t)
    \/ \E j \in 1..Len(jobs) : RerunResponseFail(j)
    \/ \E j \in 1..Len(jobs) : TypeTick(j)
    \/ \E j \in 1..Len(jobs) : \E e \in BOOLEAN : RerunGenerateOk(j, e)
    \/ \E j \in 1..Len(jobs) : RerunGenerateFail(j)
    \/ HandleRemixImage /\ UNCHANGED progressVars
    \/ \E j \in 1..Len(jobs) : \E p \in BOOLEAN, e \in BOOLEAN :
           RemixOk(j, p, e) /\ UNCHANGED progressVars
    \/ \E j \in 1..Len(jobs) : RemixFail(j) /\ UNCHANGED progressVars
    \/ \E u \in ImageUrls : HandleUpscaleImage(u)
    \/ \E j \in 1..Len(jobs) : UpscaleOk(j)
    \/ \E j \in 1..Len(jobs) : UpscaleFail(j)
    \/ \E k \in 1..Len(messages) : \E t \in EditTexts : HandleSaveEdit(k, t)

SpecGeneration == InitGeneration /\ [][NextGeneration]_vars

(***************************************************************************)
(* The category parsing of handleTextLookup applied to one response.       *)
(***************************************************************************)
Segments ==
    { Keyword,
      <<"c", "a", "t", "e", "g", "o", "r", "y", ":", " ", "m">>,
      <<" ">>, <<"\n">>, <<"m">>, <<".">> }

RECURSIVE Flatten(_)
Flatten(ss) == IF ss = <<>> THEN <<>> ELSE Head(ss) \o Flatten(Tail(ss))

ParseInputs == {Flatten(ss) : ss \in SeqsUpTo(Segments, MaxSegs)}

InitParse ==
    /\ InitChat
    /\ InitGlossaryIdle
    /\ InitInput
    /\ InitHook
    /\ InitViewer
    /\ response \in ParseInputs
    /\ aiResponse = Null
    /\ category = Null
    /\ parsed = FALSE

ParseStep ==
    /\ ~parsed
    /\ parsed' = TRUE
    /\ category' = ParseCategory(response).category
    /\ aiResponse' = ParseCategory(response).aiResponse
    /\ UNCHANGED <<response, chatVars, glossaryVars, inputVars, progressVars, viewerVars>>

NextParse == ParseStep
SpecParse == InitParse /\ [][NextParse]_vars

(***************************************************************************)
(* useInputHandling: audio recording.  One record per startRecording call  *)
(* holds what its closure owns: the capture stream, the MediaRecorder, the *)
(* queued stop event, the 500 ms timer and the transcription request.      *)
(***************************************************************************)
Recording(stream, recorder) ==
    [stream |-> stream, recorder |-> recorder, stopQueued |-> FALSE,
     timer |-> FALSE, transcribing |-> FALSE]

\* The microphone button: disabled={isTranscribing || isSending ||
\* isRecordingInitializing}.
MicEnabled == mounted /\ ~isTranscribing /\ ~isSending /\ ~isRecordingInitializing

\* MediaRecorder.stop(): an active recorder becomes inactive and queues its
\* stop event; on an inactive recorder nothing is queued.
RecorderStop(recs, n) ==
    IF recs[n].recorder = "recording"
    THEN [recs EXCEPT ![n].recorder = "inactive", ![n].stopQueued = TRUE]
    ELSE recs

\* The cleanup of the [isRecording] effect, run with the isRecording value of
\* the render that registered it.
RecordingCleanup(recs, wasRecording) ==
    IF mediaRecorderRef # 0 /\ wasRecording
    THEN RecorderStop(recs, mediaRecorderRef)
    ELSE recs

inputFrame == <<chatVars, parseVars, glossaryVars, progressVars, viewerVars>>

\* startRecording up to the await of getUserMedia.
StartRecording ==
    /\ MicEnabled
    /\ ~isRecording
    /\ Len(recordings) < MaxRecordings
    /\ isRecordingInitializing' = TRUE
    /\ recordings' = Append(recordings, Recording("pending", "none"))
    /\ UNCHANGED <<mounted, isRecording, isTranscribing, mediaRecorderRef, inputFrame>>

\* getUserMedia resolves: the recorder is created, stored in the reference,
\* started, and the 500 ms timer is armed.
GetUserMediaOk(n) ==
    /\ recordings[n].stream = "pending"
    /\ recordings' = [recordings EXCEPT ![n].stream = "live",
                                        ![n].recorder = "recording",
                                        ![n].timer = TRUE]
    /\ mediaRecorderRef' = n
    /\ UNCHANGED <<mounted, isRecording, isRecordingInitializing, isTranscribing, inputFrame>>

\* getUserMedia rejects: the catch block.
GetUserMediaFail(n) ==
    /\ recordings[n].stream = "pending"
    /\ recordings' = [recordings EXCEPT ![n].stream = "denied"]
    /\ isRecordingInitializing' = IF mounted THEN FALSE ELSE isRecordingInitializing
    /\ UNCHANGED <<mounted, isRecording, isTranscribing, mediaRecorderRef, inputFrame>>

\* The 500 ms timer fires.  The state of an unmounted component is not
\* updated.
RecordingTimer(n) ==
    /\ recordings[n].timer
    /\ recordings' = [recordings EXCEPT ![n].timer = FALSE]
    /\ isRecordingInitializing' = IF mounted THEN FALSE ELSE isRecordingInitializing
    /\ isRecording' = IF mounted THEN TRUE ELSE isRecording
    /\ UNCHANGED <<mounted, isTranscribing, mediaRecorderRef, inputFrame>>

\* stopRecording, from the microphone button while isRecording is shown.
StopRecording ==
    /\ MicEnabled
    /\ isRecording
    /\ recordings' = IF mediaRecorderRef # 0 /\ isRecording
                     THEN RecorderStop(recordings, mediaRecorderRef)
                     ELSE recordings
    /\ UNCHANGED <<mounted, isRecording, isRecordingInitializing, isTranscribing,
                   mediaRecorderRef, inputFrame>>

\* mediaRecorder.onstop: the tracks of the closure's stream are stopped,
\* isRecording is cleared and, if audio was captured, the transcription
\* starts.  The re-render that follows runs the cleanup of the effect
\* registered while isRecording was true.
OnStop(n, hasAudio) ==
    /\ recordings[n].stopQueued
    /\ LET released == [recordings EXCEPT ![n].stopQueued = FALSE,
                                          ![n].stream = "released",
                                          ![n].transcribing = hasAudio]
       IN  recordings' = IF mounted /\ isRecording
                         THEN RecordingCleanup(released, TRUE)
                         ELSE released
    /\ isRecording' = IF mounted THEN FALSE ELSE isRecording
    /\ isTranscribing' = IF mounted /\ hasAudio THEN TRUE ELSE isTranscribing
    /\ UNCHANGED <<mounted, isRecordingInitializing, mediaRecorderRef, inputFrame>>

\* transcribeAudioChunk settles: the finally block of onstop.
TranscribeDone(n) ==
    /\ recordings[n].transcribing
    /\ recordings' = [recordings EXCEPT ![n].transcribing = FALSE]
    /\ isTranscribing' = IF mounted THEN FALSE ELSE isTranscribing
    /\ UNCHANGED <<mounted, isRecording, isRecordingInitializing, mediaRecorderRef, inputFrame>>

\* The component unmounts: the cleanup of the last registered effect runs
\* with the isRecording value of the last render.
Unmount ==
    /\ mounted
    /\ mounted' = FALSE
    /\ recordings' = RecordingCleanup(recordings, isRecording)
    /\ UNCHANGED <<isRecording, isRecordingInitializing, isTranscribing,
                   mediaRecorderRef, inputFrame>>

NextRecording ==
    \/ StartRecording
    \/ \E n \in 1..Len(recordings) : GetUserMediaOk(n)
    \/ \E n \in 1..Len(recordings) : GetUserMediaFail(n)
    \/ \E n \in 1..Len(recordings) : RecordingTimer(n)
    \/ StopRecording
    \/ \E n \in 1..Len(recordings), hasAudio \in BOOLEAN : OnStop(n, hasAudio)
    \/ \E n \in 1..Len(recordings) : TranscribeDone(n)
    \/ Unmount

InitRecording == InitChat /\ InitParseIdle /\ InitGlossaryIdle /\ InitInput /\ InitHook /\ InitViewer
SpecRecording == InitRecording /\ [][NextRecording]_vars

(***************************************************************************)
(* useImageGeneration: the simulated progress of generateImages and        *)
(* remixImage, and the effect of useMessageSending that copies it into the *)
(* message the reference points to.  SpecGeneration follows the message    *)
(* list and the reference only; here the remix jobs run together with the  *)
(* hook's own state.                                                       *)
(***************************************************************************)
\* The interval of job j's call is running: set before the request is sent,
\* cleared in the finally block.
IntervalActive(j) == jobs[j].kind \in {"rerun", "remix"} /\ jobs[j].pc = "generating"

\* remixImage / generateImages up to the request.
RemixImageCall ==
    /\ generatingImage' = TRUE
    /\ progressPercentage' = 0
    /\ UNCHANGED effectProgress

\* The request succeeded: setProgressPercentage(100), then finally.
CallResolved ==
    /\ progressPercentage' = Done
    /\ generatingImage' = FALSE
    /\ UNCHANGED effectProgress

\* The request failed: finally only.
CallRejected ==
    /\ generatingImage' = FALSE
    /\ UNCHANGED <<progressPercentage, effectProgress>>

\* prev < 95 ? prev + (95 / 40) : prev
TickValue(prev) == IF prev < ProgressCap THEN prev + ProgressStep ELSE prev

\* One tick of the interval of job j's call.
ProgressTick(j) ==
    /\ IntervalActive(j)
    /\ progressPercentage' = TickValue(progressPercentage)
    /\ UNCHANGED <<generatingImage, effectProgress, chatVars, parseVars, glossaryVars, inputVars, viewerVars>>

\* prev.map(msg => msg.id === currentId ? {...msg, progressPercentage} : msg)
SetProgressAll(msgs, id, p) ==
    [k \in 1..Len(msgs) |-> [msgs[k] EXCEPT !.progressPercentage = p]]
SetProgress(msgs, id, p) ==
    [k \in 1..Len(msgs) |->
        IF msgs[k].id = id THEN [msgs[k] EXCEPT !.progressPercentage = p] ELSE msgs[k]]

\* The effect with dependency progressPercentage: it runs after a render in
\* which the value differs from the one it last ran with.
ProgressEffect ==
    /\ progressPercentage # effectProgress
    /\ effectProgress' = progressPercentage
    /\ messages' = IF currentGenImageId # Null
                   THEN SetProgress(messages, currentGenImageId, progressPercentage)
                   ELSE messages
    /\ UNCHANGED <<messagesRef, currentGenImageId, isSending, error, messagesSent,
                   refreshTrigger, now, jobs, generatingImage, progressPercentage,
                   parseVars, glossaryVars, inputVars, viewerVars>>

NextProgress ==
    \/ Advance
    \/ HandleRemixImage /\ RemixImageCall
    \/ \E j \in 1..Len(jobs) : \E p \in BOOLEAN, e \in BOOLEAN :
           RemixOk(j, p, e) /\ CallResolved
    \/ \E j \in 1..Len(jobs) : RemixFail(j) /\ CallRejected
    \/ \E j \in 1..Len(jobs) : ProgressTick(j)
    \/ ProgressEffect

InitProgress == InitGeneration
SpecProgress == InitProgress /\ [][NextProgress]_vars

(***************************************************************************)
(* The chat history submitted with an interpret request.                   *)
(***************************************************************************)
\* list.map(msg => ({content: msg.content, isUser: msg.isUser, type: msg.type}))
History(list) ==
    [k \in 1..Len(list) |->
        [content |-> list[k].content, isUser |-> list[k].isUser, type |-> list[k].type]]

\* handleSend builds the history from messagesRef.current after it has
\* appended the user message and the loading placeholder.
SentHistory == History(messagesRef')

(***************************************************************************)
(* The image viewer: useImageViewer, the ImageCard that opens it and the   *)
(* modal that shows the expanded image.                                    *)
(***************************************************************************)
Keys == {"ArrowRight", "ArrowDown", "ArrowLeft", "ArrowUp", "Escape", "Enter"}
viewerFrame == UNCHANGED <<chatVars, parseVars, glossaryVars, inputVars, progressVars>>

\* ImageCard builds the collection: totalImages copies of the card's url.
CardCollection(url, totalImages) == [i \in 1..totalImages |-> url]

\* currentImageCollection[i] of the source (indices from 0).
CollectionAt(i) == currentImageCollection[i + 1]

NextIndex == (currentImageIndex + 1) % Len(currentImageCollection)
PrevIndex ==
    (currentImageIndex - 1 + Len(currentImageCollection)) % Len(currentImageCollection)

\* handleKeyDown's early return.
KeysIgnored == expandedImage = Null \/ Len(currentImageCollection) <= 1

\* ImageCards are rendered for the imageUrls of a generated-image message.
CardOnDisplay == \E k \in 1..Len(messages) : messages[k].type = "generated-image"

\* A click on the image of a card: the card at `index` of a message that
\* shows totalImages images.  The modal covers the page while it is open.
OpenImageViewer(url, totalImages, index) ==
    /\ CardOnDisplay
    /\ expandedImage = Null
    /\ currentImageCollection' = CardCollection(url, totalImages)
    /\ currentImageIndex' = index
    /\ expandedImage' = url
    /\ lastEvent' = "open"
    /\ viewerFrame

\* The window's keydown listener.
HandleKeyDown(key) ==
    /\ lastEvent' = key
    /\ IF KeysIgnored
       THEN UNCHANGED <<expandedImage, currentImageCollection, currentImageIndex>>
       ELSE IF key \in {"ArrowRight", "ArrowDown"}
       THEN /\ currentImageIndex' = NextIndex
            /\ expandedImage' = CollectionAt(NextIndex)
            /\ UNCHANGED currentImageCollection
       ELSE IF key \in {"ArrowLeft", "ArrowUp"}
       THEN /\ currentImageIndex' = PrevIndex
            /\ expandedImage' = CollectionAt(PrevIndex)
            /\ UNCHANGED currentImageCollection
       ELSE IF key = "Escape"
       THEN /\ expandedImage' = Null
            /\ UNCHANGED <<currentImageCollection, currentImageIndex>>
       ELSE UNCHANGED <<expandedImage, currentImageCollection, currentImageIndex>>
    /\ viewerFrame

\* The modal's backdrop and its close button.
CloseModal ==
    /\ expandedImage # Null
    /\ expandedImage' = Null
    /\ lastEvent' = "close"
    /\ UNCHANGED <<currentImageCollection, currentImageIndex>>
    /\ viewerFrame

\* The modal's arrow buttons, rendered for more than one image.
ModalArrow(forward) ==
    /\ expandedImage # Null
    /\ Len(currentImageCollection) > 1
    /\ LET i == IF forward THEN NextIndex ELSE PrevIndex
       IN  /\ currentImageIndex' = i
           /\ expandedImage' = CollectionAt(i)
    /\ lastEvent' = IF forward THEN "next" ELSE "previous"
    /\ UNCHANGED currentImageCollection
    /\ viewerFrame

NextViewer ==
    \/ \E url \in ImageUrls : \E totalImages \in 1..MaxImages :
         \E index \in 0..(totalImages - 1) : OpenImageViewer(url, totalImages, index)
    \/ \E key \in Keys : HandleKeyDown(key)
    \/ CloseModal
    \/ \E forward \in BOOLEAN : ModalArrow(forward)

\* The viewer in a conversation that holds a generated image.
InitViewerView == InitGeneration

SpecViewer == InitViewerView /\ [][NextViewer]_vars

(***************************************************************************)
(* Properties.                                                             *)
(***************************************************************************)

\* C1: after any sequence of handleSend calls and their response callbacks,
\* at any clock values, no two messages in the list share the same id.
C1_UniqueIds ==
    \A i, k \in 1..Len(messages) : i # k => messages[i].id # messages[k].id

\* The playback of job j runs its last tick in this step.
LastTick(j) == ~jobs[j].typed /\ jobs'[j].typed

\* C2: once the playback of simulateTyping(T, id) has run its last tick, the
\* list holds a message with that id whose content is T and whose type is
\* 'text', whatever other store operations ran in between.
C2_PlaybackEndsWithText ==
    [][\A j \in 1..Len(jobs) :
          LastTick(j) =>
             \E k \in 1..Len(messages') :
                /\ messages'[k].id = jobs'[j].aiId
                /\ messages'[k].content = jobs'[j].text
                /\ messages'[k].type = "text"]_vars

\* C3: when the request of a generation-class job (rerun generate, remix,
\* upscale) fails, then after its failure handler has run the list holds no
\* message with that job's placeholder id.
C3_FailedPlaceholderRemoved ==
    [][\A j \in 1..Len(jobs) :
          (jobs[j].pc = "generating" /\ jobs'[j].pc = "failed")
             => ~HasId(messages', jobs[j].genId)]_vars

\* The generation of a rerun has failed and its placeholder is gone while
\* the placeholder of another job that is still generating is in the list.
C3_Witness ==
    \E j, k \in 1..Len(jobs) :
        /\ jobs[j].kind = "rerun"
        /\ jobs[j].pc = "failed" /\ jobs[j].genId # Null
        /\ ~HasId(messages, jobs[j].genId)
        /\ jobs[k].pc = "generating" /\ HasId(messages, jobs[k].genId)

\* The playback of a send finishes in this step.
SendFinished(j) == jobs[j].kind = "send" /\ LastTick(j)

NoLoading(msgs) == \A k \in 1..Len(msgs) : msgs[k].type # "loading"

\* The list ends with the user message of job j followed by its reply.
EndsWithExchange(msgs, j) ==
    LET n == Len(msgs)
    IN /\ n >= 2
       /\ msgs[n - 1].isUser
       /\ msgs[n - 1].id = jobs'[j].userId
       /\ msgs[n - 1].content = jobs'[j].sent
       /\ ~msgs[n].isUser
       /\ msgs[n].id = jobs'[j].aiId
       /\ msgs[n].type = "text"
       /\ msgs[n].content = jobs'[j].text

\* C4 (as stated): when a send succeeds, then once its typing playback has
\* finished the list ends with the user message holding the sent text
\* followed by the assistant message holding the response, and no message
\* of type 'loading' remains.
C4_SendEndsWithExchange ==
    [][\A j \in 1..Len(jobs) :
          SendFinished(j) => EndsWithExchange(messages', j) /\ NoLoading(messages')]_vars

\* C4 (amended): when a send succeeds and no other operation was in flight
\* at the call or started before its playback finished, then at the end of
\* the playback the list ends with the user message holding the sent text
\* followed by the assistant message holding the response, the send's own
\* loading placeholder is gone, and no 'loading' message remains at all if
\* none was in the list at the call.
C4_SendAloneEndsWithExchange ==
    [][\A j \in 1..Len(jobs) :
          (SendFinished(j) /\ jobs'[j].alone) =>
             /\ EndsWithExchange(messages', j)
             /\ ~HasId(messages', jobs'[j].loadingId)
             /\ (jobs'[j].numLoadingAtCall = 0 => NoLoading(messages'))]_vars

\* A send that ran alone has played a response of full length to its end,
\* after an earlier operation had left messages in the list.
C4_Witness ==
    \E j \in 1..Len(jobs) :
        /\ jobs[j].kind = "send" /\ jobs[j].typed /\ jobs[j].alone
        /\ jobs[j].pc = "done" /\ Len(jobs[j].text) = MaxLen
        /\ Len(messages) > 2
        /\ messages[Len(messages)].content = jobs[j].text
        /\ messages[Len(messages)].type = "text"
        /\ messages[Len(messages) - 1].content = jobs[j].sent
        /\ NoLoading(messages)

\* positions p..e of s hold a tag: the keyword in any case at p, then only
\* whitespace up to q, then the longest run of word characters q..e
TagAt(s, p, q, e) ==
    /\ 1 <= p /\ p + KeywordLen <= q /\ q <= e /\ e <= Len(s)
    /\ \A k \in 1..KeywordLen : Fold(s[p + k - 1]) = Keyword[k]
    /\ \A k \in (p + KeywordLen)..(q - 1) : IsSpace(s[k])
    /\ \A k \in q..e : IsWord(s[k])
    /\ (e = Len(s) \/ ~IsWord(s[e + 1]))

HasTag(s) == \E p, q, e \in 1..Len(s) : TagAt(s, p, q, e)

\* C5: for a response that holds a tag 'CATEGORY: <word>' (in any case) the
\* category is the word of the first tag and the explanation is the
\* response with that tag removed, trimmed; for a response without a tag
\* the category is 'Uncategorized' and the explanation is the response
\* unmodified.
C5_CategoryParsing ==
    parsed =>
        IF HasTag(response)
        THEN \E p, q, e \in 1..Len(response) :
                /\ TagAt(response, p, q, e)
                /\ \A p2 \in 1..(p - 1) :
                      ~\E q2, e2 \in 1..Len(response) : TagAt(response, p2, q2, e2)
                /\ category = SubSeq(response, q, e)
                /\ aiResponse = Trim(SubSeq(response, 1, p - 1)
                                     \o SubSeq(response, e + 1, Len(response)))
        ELSE category = Uncategorized /\ aiResponse = response

\* A response with a lower-case tag in mid-sentence was parsed: text stands
\* before and after the tag, and the explanation differs from the response.
C5_Witness ==
    /\ parsed
    /\ category = <<"m">>
    /\ \E p, q, e \in 1..Len(response) :
          TagAt(response, p, q, e) /\ p > 1 /\ e < Len(response) /\ response[p] = "c"
    /\ aiResponse # response

\* C6: for every response to a lookup, the explanation that is played and
\* persisted holds no 'CATEGORY:' tag.
C6_NoTagInExplanation == parsed => ~HasTag(aiResponse)

TermsOf(cats) == UNION {cats[c] : c \in DOMAIN cats}

\* C7: confirmDeleteTerm removes every term with the confirmed term's text
\* from the displayed categories and adds the text to the exclusion set
\* while the server's result is still unknown (the table is untouched), and
\* neither delete result, success or failure, changes the displayed
\* categories or the exclusion set.
C7_OptimisticRemoval ==
    [][/\ (deletion.phase = "none" /\ deletion'.phase = "byText") =>
             /\ \E t \in TermsOf(categories) :
                   t.id = deletion'.termId /\ t.term = deletion'.text
             /\ \A t \in TermsOf(categories') : t.term # deletion'.text
             /\ deletion'.text \in deletedTermTexts'
             /\ server' = server
       /\ (deletion.phase # "none" /\ deletion' # deletion) =>
             /\ categories' = categories
             /\ deletedTermTexts' = deletedTermTexts]_vars

\* The term was removed locally and excluded while the delete request is in
\* flight and the table still holds the row.
C7_Witness ==
    /\ deletion.phase = "byText"
    /\ deletion.text \in deletedTermTexts
    /\ \A t \in DisplayedTerms : t.term # deletion.text
    /\ \E t \in server : t.term = deletion.text /\ t.id = deletion.termId

\* C8: no term whose text is in the local exclusion set (deleted locally
\* since the last full reset) is in the displayed categories.
C8_DeletedNeverDisplayed ==
    \A t \in DisplayedTerms : t.term \notin deletedTermTexts

\* Job j creates its generation placeholder in this step.
StartsGeneration(j) ==
    /\ j \in 1..Len(jobs')
    /\ jobs'[j].genId # Null
    /\ (j \in 1..Len(jobs) => jobs[j].genId = Null)

\* C9: whenever a generation-class job assigns currentGenImageId to its new
\* placeholder id, the reference was null immediately before.
C9_ReferenceNullBeforeStart ==
    [][\A j \in 1..MaxJobs : StartsGeneration(j) => currentGenImageId = Null]_vars

\* C10: the completion handler of a rerun's generation converts the messages
\* whose id is the current value of the shared reference, and no other
\* message, whichever job created them.
C10_CompletionWritesToReference ==
    [][\A j \in 1..Len(jobs) :
          (jobs[j].kind = "rerun" /\ jobs[j].pc = "generating" /\ jobs'[j].pc = "done"
             /\ currentGenImageId # Null) =>
             \A k \in 1..Len(messages) :
                IF messages[k].id = currentGenImageId
                THEN /\ messages'[k].type = "generated-image"
                     /\ messages'[k].imageUrls = Urls(j)
                     /\ messages'[k].generationData = Data(j)
                ELSE messages'[k] = messages[k]]_vars

\* A second job created its placeholder while the generation of an earlier
\* rerun was in flight, and the rerun's result is in the second job's
\* placeholder and in no message with the rerun's own placeholder id.
C10_Witness ==
    \E j, k \in 1..Len(jobs) : \E m \in 1..Len(messages) :
        /\ j < k
        /\ jobs[j].kind = "rerun" /\ jobs[j].pc = "done"
        /\ jobs[j].genId # Null /\ jobs[k].genId # Null
        /\ jobs[j].genId # jobs[k].genId
        /\ messages[m].id = jobs[k].genId
        /\ messages[m].type = "generated-image"
        /\ messages[m].imageUrls = Urls(j)
        /\ messages[m].generationData = Data(j)
        /\ \A o \in 1..Len(messages) :
              messages[o].id = jobs[j].genId => messages[o].imageUrls # Urls(j)

\* C11: for a send and for a rerun alike, when the interpret response has
\* type 'txt2img', the end of the typing playback appends a placeholder of
\* type 'generating-image' and starts the generation; and such a placeholder
\* is created only when the playback has finished.
C11_GenerationAfterPlayback ==
    [][\A j \in 1..Len(jobs) :
          /\ (jobs[j].kind \in {"send", "rerun"} /\ jobs'[j].type = "txt2img" /\ LastTick(j)) =>
                /\ jobs'[j].pc = "generating"
                /\ messages' # <<>>
                /\ messages'[Len(messages')].id = jobs'[j].genId
                /\ messages'[Len(messages')].type = "generating-image"
          /\ (jobs[j].kind \in {"send", "rerun"} /\ StartsGeneration(j)) => jobs'[j].typed]_vars

\* C12: when the request of a generation-class job resolves, no message
\* with that job's placeholder id stays of type 'generating-image': on
\* success every such message has type 'generated-image' with its imageUrls
\* filled, on failure there is none.
C12_PlaceholderResolved ==
    [][\A j \in 1..Len(jobs) :
          (jobs[j].pc = "generating" /\ jobs'[j].pc \in {"done", "failed"}) =>
             \A k \in 1..Len(messages') :
                messages'[k].id = jobs[j].genId =>
                   /\ jobs'[j].pc = "done"
                   /\ messages'[k].type = "generated-image"
                   /\ messages'[k].imageUrls # Null]_vars

\* C13: a rerun of any user message in the store takes effect and keeps the
\* store's current messages up to and including that message: the prefix
\* handleRerunMessage would keep equals the prefix of the current list.
C13_RerunDerivesFromStore ==
    \A k \in 1..Len(messages) :
        messages[k].isUser =>
            UpdatedMessages(messagesRef, messages[k].id)
                = UpdatedMessages(messages, messages[k].id)

\* No callback of a recording is still to run.
RecordingsSettled ==
    \A n \in 1..Len(recordings) :
        /\ recordings[n].stream # "pending"
        /\ ~recordings[n].timer
        /\ ~recordings[n].stopQueued

\* C14: the capture stream acquired by startRecording is always eventually
\* released, also on teardown at any point after acquisition: once the
\* component is unmounted and no callback of a recording remains to run, no
\* stream is still live.
C14_StreamReleased ==
    (~mounted /\ RecordingsSettled) =>
        \A n \in 1..Len(recordings) : recordings[n].stream # "live"

\* The interpret request of job j fails on this step (no response body was
\* played back).
InterpretFails(j) ==
    jobs[j].pc = "interpret" /\ jobs'[j].pc = "failed" /\ jobs'[j].aiId = Null

C16_UpscaleWithoutFilenameLeavesNothing ==
    [][(/\ Len(jobs') = Len(jobs) + 1
        /\ jobs'[Len(jobs')].kind = "upscale"
        /\ jobs'[Len(jobs')].pc = "stuck") =>
          /\ error'
          /\ \A k \in 1..Len(messages') :
                ~(/\ messages'[k].id = jobs'[Len(jobs')].genId
                  /\ messages'[k].type = "generating-image")
          /\ currentGenImageId' = Null]_vars

\* The interpret response of job j arrives on this step with success status
\* and without its response text.
MalformedBody(j) ==
    /\ jobs[j].kind \in {"send", "rerun"}
    /\ jobs[j].pc = "interpret" /\ jobs'[j].pc = "failed"
    /\ jobs'[j].aiId # Null

\* C17: when an interpret response for a send or rerun arrives with success
\* status but without the response text, the error is surfaced and the list
\* afterwards holds no 'loading', 'typing' or 'generating-image' message
\* created by that job.
C17_MalformedBodyLeavesNoPlaceholder ==
    [][\A j \in 1..Len(jobs) :
          MalformedBody(j) =>
             /\ error'
             /\ \A k \in 1..Len(messages') :
                   messages'[k].id \in {jobs'[j].loadingId, jobs'[j].aiId, jobs'[j].genId} =>
                      messages'[k].type \notin {"loading", "typing", "generating-image"}]_vars

\* Job j's generate/remix call begins, or completes successfully, on this step.
CallBegins(j) == j = Len(jobs') /\ Len(jobs') = Len(jobs) + 1 /\ IntervalActive(j)'
CallCompletes(j) == j <= Len(jobs) /\ IntervalActive(j) /\ jobs'[j].pc = "done"

\* C18: the simulated progress is 0 when a generate/remix call begins, a
\* timer tick adds 95/40 to it below the cap, it never exceeds 95 while any
\* generate/remix request is pending, also with overlapping calls, and it
\* becomes 100 only when a request has completed successfully.
C18_ProgressWithinCapWhilePending ==
    [][/\ \A j \in 1..Len(jobs') : CallBegins(j) => progressPercentage' = 0
       /\ (\E j \in 1..Len(jobs') : IntervalActive(j)') =>
             progressPercentage' <= ProgressCap
       /\ (progressPercentage' > progressPercentage /\ progressPercentage' # Done) =>
             progressPercentage' = progressPercentage + ProgressStep
       /\ (progressPercentage' = Done /\ progressPercentage # Done) =>
             \E j \in 1..Len(jobs) : CallCompletes(j)]_vars

\* C19: a progress update changes only the progressPercentage field of the
\* messages whose id equals the current value of currentGenImageId; every
\* other message, the list length and the order are unchanged, and with a
\* null currentGenImageId nothing changes.
C19_ProgressUpdateTouchesOnlyTarget ==
    [][effectProgress' # effectProgress =>
          /\ Len(messages') = Len(messages)
          /\ \A k \in 1..Len(messages) :
                /\ messages'[k] =
                      [messages[k] EXCEPT !.progressPercentage = messages'[k].progressPercentage]
                /\ (currentGenImageId = Null \/ messages[k].id # currentGenImageId) =>
                      messages'[k] = messages[k]
                /\ (currentGenImageId # Null /\ messages[k].id = currentGenImageId) =>
                      messages'[k].progressPercentage = progressPercentage
          /\ currentGenImageId' = currentGenImageId]_vars

\* The effect has copied a tick's progress into the placeholder the
\* reference points to, and into no other message.
C19_Witness ==
    /\ currentGenImageId # Null
    /\ effectProgress = ProgressStep
    /\ \E k \in 1..Len(messages) :
          /\ messages[k].id = currentGenImageId
          /\ messages[k].progressPercentage = ProgressStep
    /\ \E k \in 1..Len(messages) :
          /\ messages[k].type = "generating-image"
          /\ messages[k].id # currentGenImageId
          /\ messages[k].progressPercentage = 0

\* The remix or upscale request of job j succeeds on this step.
RequestSucceeds(j) ==
    /\ jobs[j].kind \in {"remix", "upscale"}
    /\ jobs[j].pc = "generating" /\ jobs'[j].pc = "done"

\* C20: when a remix or upscale request succeeds, no message is removed or
\* moved and none is added before an existing one; every message keeps its
\* id, messages with another id than the placeholder's are unchanged, and
\* the placeholder becomes a 'generated-image' with content and imageUrls
\* filled.
C20_PlaceholderConvertedInPlace ==
    [][\A j \in 1..Len(jobs) :
          RequestSucceeds(j) =>
             /\ Len(messages') >= Len(messages)
             /\ \A k \in 1..Len(messages) :
                   /\ messages'[k].id = messages[k].id
                   /\ messages'[k].isUser = messages[k].isUser
                   /\ messages'[k].progressPercentage = messages[k].progressPercentage
                   /\ messages[k].id # jobs[j].genId => messages'[k] = messages[k]
                   /\ messages[k].id = jobs[j].genId =>
                         /\ messages'[k].type = "generated-image"
                         /\ messages'[k].imageUrls # Null
                         /\ messages'[k].content # <<>>]_vars

\* A remix has succeeded and its placeholder, now a generated image, is
\* still where it was created: after its user message and before the
\* messages of a later operation.
C20_Witness ==
    \E j \in 1..Len(jobs) : \E k \in 2..Len(messages) :
        /\ jobs[j].kind = "remix" /\ jobs[j].pc = "done"
        /\ messages[k].id = jobs[j].genId
        /\ messages[k].type = "generated-image"
        /\ messages[k].imageUrls = Urls(j)
        /\ messages[k - 1].id = jobs[j].userId
        /\ k < Len(messages)

\* A tick of job j's playback runs in this step.
Ticks(j) == jobs[j].pc = "typing" /\ (jobs'[j].i # jobs[j].i \/ jobs'[j].typed)

\* C21: the onComplete callback of a playback runs exactly at its last tick
\* and never before; when several playbacks with different ids run
\* concurrently, a tick of one never alters the message of another, and each
\* ends with its own full text in a message of type 'text'.
C21_ConcurrentPlaybacks ==
    [][\A j \in 1..Len(jobs) :
          /\ (jobs[j].kind = "rerun" /\ StartsGeneration(j)) =>
                (jobs[j].onComplete => LastTick(j)) /\ jobs'[j].typed
          /\ (jobs[j].onComplete /\ LastTick(j)) => StartsGeneration(j)
          /\ \A o \in 1..Len(jobs) :
                (o # j /\ jobs[o].pc = "typing" /\ jobs[o].aiId # jobs[j].aiId) =>
                   /\ Ticks(j) =>
                         \A k \in 1..Len(messages) :
                            messages[k].id = jobs[o].aiId =>
                               k <= Len(messages') /\ messages'[k] = messages[k]
                   /\ LastTick(j) =>
                         \E k \in 1..Len(messages') :
                            /\ messages'[k].id = jobs'[j].aiId
                            /\ messages'[k].content = jobs'[j].text
                            /\ messages'[k].type = "text"]_vars

\* C22: the refresh counter is incremented after a lookup only if persisting
\* the term succeeded; when addTermToGlossary reports failure the counter is
\* not incremented, no error is surfaced and the messages are left in place.
C22_RefreshOnlyAfterSuccessfulPersistence ==
    [][\A j \in 1..Len(jobs) :
          /\ (jobs[j].persist = "pending" /\ jobs'[j].persist = "rejected") =>
                /\ refreshTrigger' = refreshTrigger
                /\ error' = error
                /\ messages' = messages
          /\ (jobs[j].persist = "pending" /\ jobs'[j].persist = "done") =>
                refreshTrigger' = refreshTrigger + 1]_vars

\* C23: persisting the term does not block the chat: once the interpret
\* response of a lookup has been processed, isSending is false although the
\* addTermToGlossary request has not resolved.
C23_PersistenceDoesNotBlock ==
    [][\A j \in 1..Len(jobs) :
          (jobs[j].persist = "none" /\ jobs'[j].persist = "pending") =>
             ~isSending']_vars

\* C24: in confirmDeleteTerm delete-by-text is attempted first; delete-by-id
\* is attempted if and only if delete-by-text reported failure (it deleted
\* nothing); when the deletion ends, whatever was reported, the delete
\* confirmation is cleared and isDeleting is false.
C24_DeletionStrategiesInSequence ==
    [][/\ (deletion.phase = "none" /\ deletion'.phase # "none") =>
             deletion'.phase = "byText" /\ isDeleting'
       /\ (deletion.phase # "byId" /\ deletion'.phase = "byId") =>
             /\ deletion.phase = "byText"
             /\ server' = server
             /\ deletion'.termId = deletion.termId
       /\ (deletion.phase = "byText" /\ deletion' # deletion /\ server' = server) =>
             deletion'.phase = "byId"
       /\ (deletion.phase = "byText" /\ deletion'.phase = "none") =>
             /\ \E t \in server : t.term = deletion.text
             /\ \A t \in server' : t.term # deletion.text
       /\ (deletion.phase # "none" /\ deletion'.phase = "none") =>
             deleteConfirmation' = NoTerm /\ ~isDeleting']_vars

\* Delete-by-text has reported failure for a term the server still holds, and
\* the fallback by id is in flight.
C24_Witness ==
    /\ deletion.phase = "byId"
    /\ isDeleting
    /\ deleteConfirmation = deletion.termId
    /\ \E t \in server : t.id = deletion.termId /\ t.term = deletion.text

\* The interpret or upscale request of job j is in flight.
RequestInFlight(j) ==
    \/ jobs[j].kind \in {"send", "rerun", "lookup"} /\ jobs[j].pc = "interpret"
    \/ jobs[j].kind = "upscale" /\ jobs[j].pc = "generating"

\* C25: isSending is true whenever at least one interpret or upscale request
\* started by send, rerun, lookup or upscale is still in flight.
C25_SendingWhileRequestInFlight ==
    (\E j \in 1..Len(jobs) : RequestInFlight(j)) => isSending

\* C26: generatingImage is true exactly while at least one generateImages or
\* remixImage request is in flight, also when calls overlap.
C26_GeneratingWhileRequestInFlight ==
    generatingImage <=> \E j \in 1..Len(jobs) : IntervalActive(j)

\* handleSend submits its interpret request in this step.
SendSubmits ==
    /\ Len(jobs') = Len(jobs) + 1
    /\ jobs'[Len(jobs')].kind = "send"

\* C27: the history submitted by handleSend equals the store's message list
\* at submission time projected to (content, isUser, type).
C27_HistoryEqualsStore ==
    [][SendSubmits => SentHistory = History(messages')]_vars

\* The remix or upscale request of job j settles on this step.
RequestSettles(j) ==
    /\ jobs[j].kind \in {"remix", "upscale"}
    /\ jobs[j].pc = "generating" /\ jobs'[j].pc \in {"done", "failed"}

\* C28: the completion and failure handlers of a remix or upscale job leave
\* every message with another id than the job's placeholder as it was, and
\* set currentGenImageId to null only if it still refers to that job's
\* placeholder.
C28_HandlersTouchOnlyOwnState ==
    [][\A j \in 1..Len(jobs) :
          RequestSettles(j) =>
             /\ \A k \in 1..Len(messages) :
                   messages[k].id # jobs[j].genId =>
                      \E l \in 1..Len(messages') : messages'[l] = messages[k]
             /\ currentGenImageId' =
                   IF currentGenImageId = jobs[j].genId THEN Null ELSE currentGenImageId]_vars

\* C29: after a full reset, once every outstanding reload has resolved, in
\* whatever order, the displayed categories hold every term the server
\* returns: while the exclusion set is empty and no deletion is in flight,
\* the reload that leaves none outstanding displays every term of its
\* snapshot that the server still holds.
C29_ResetShowsEveryServerTerm ==
    [][\A l \in BagToSet(loads) :
          (/\ l.phase = "fetched" /\ ~l.failed
           /\ loads' = loads (-) One(l)
           /\ loads' = EmptyBag
           /\ deletedTermTexts = {}
           /\ deletion = NoDeletion) =>
             (l.snapshot \cap server) \subseteq UNION {categories'[c] : c \in DOMAIN categories'}]_vars

\* C30: Escape pressed while an image is expanded closes it whatever the
\* size of the collection; an arrow key moves the index only in a collection
\* of more than one image, by one step modulo its length; and an expanded
\* image is always collection[index] with 0 <= index < length.
C30_EscapeClosesAndArrowsWrap ==
    [][/\ (lastEvent' = "Escape" /\ expandedImage # Null) => expandedImage' = Null
       /\ lastEvent' \in {"ArrowRight", "ArrowDown", "ArrowLeft", "ArrowUp"} =>
            LET n == Len(currentImageCollection)
                step == IF lastEvent' \in {"ArrowRight", "ArrowDown"} THEN 1 ELSE n - 1
            IN  currentImageIndex' =
                    IF expandedImage # Null /\ n > 1
                    THEN (currentImageIndex + step) % n
                    ELSE currentImageIndex
       /\ expandedImage' # Null =>
            /\ currentImageIndex' \in 0..(Len(currentImageCollection') - 1)
            /\ expandedImage' = currentImageCollection'[currentImageIndex' + 1]]_vars

====
